---- MODULE Spec2Model ----
(***************************************************************************)
(* Model of hassemap's Poset (src/src/hasse_map.rs): the key registry,     *)
(* the draft relation built from rows, normalize (Hasse reduction and      *)
(* incomparabilities) and topo_one (petgraph's toposort over succ).        *)
(*                                                                         *)
(* Vec<T> is a sequence; the code's 0-based index i is position i+1.       *)
(***************************************************************************)
EXTENDS Integers, Sequences, FiniteSets, TLC

VARIABLES rows, pc, idx, keys, succ, amb, renormalized, res

vars == <<rows, pc, idx, keys, succ, amb, renormalized, res>>

(***************************************************************************)
(* Inputs of the model: every list of at most MaxRows rows over Keys that  *)
(* holds at most MaxCells keys in all, and every list of at most MaxRows   *)
(* rows that each name all of Keys once (records with the same fields in   *)
(* different orders).                                                      *)
(***************************************************************************)
Keys == {"a", "b", "c", "d"}
MaxRows == 2
MaxCells == 4

SeqsUpTo(S, n) == UNION {[1..k -> S] : k \in 0..n}

RECURSIVE RowListsOf(_, _)
RowListsOf(r, c) ==
    IF r = 0 THEN {<<>>}
    ELSE {<<>>} \cup
         UNION {{<<row>> \o rest : row \in [1..k -> Keys],
                                   rest \in RowListsOf(r - 1, c - k)} : k \in 0..c}

RowLists == RowListsOf(MaxRows, MaxCells)

PermRows ==
    {r \in [1..Cardinality(Keys) -> Keys] :
        \A i, j \in 1..Cardinality(Keys) : i # j => r[i] # r[j]}

PermRowLists == SeqsUpTo(PermRows, MaxRows)

(***************************************************************************)
(* Vec helpers.                                                            *)
(***************************************************************************)
At(v, i) == v[i + 1]
Contains(v, x) == \E i \in 1..Len(v) : v[i] = x
Elems(v) == {v[i] : i \in 1..Len(v)}

RECURSIVE Insert(_, _)
Insert(sorted, x) ==
    IF sorted = <<>> THEN <<x>>
    ELSE IF x <= Head(sorted) THEN <<x>> \o sorted
    ELSE <<Head(sorted)>> \o Insert(Tail(sorted), x)

\* Vec::sort_unstable on usize: ascending, repeats kept.
RECURSIVE sort_unstable(_)
sort_unstable(v) ==
    IF v = <<>> THEN <<>> ELSE Insert(sort_unstable(Tail(v)), Head(v))

(***************************************************************************)
(* The Poset record and its construction.                                  *)
(***************************************************************************)
EmptyIdx == [k \in {} |-> 0]

new == [idx |-> EmptyIdx, keys |-> <<>>, succ |-> <<>>, amb |-> <<>>]

\* add_key without the lookup: a key seen again is registered again.
add_key_no_lookup(p, k) ==
    LET i == Len(p.keys) IN
    [idx  |-> [x \in DOMAIN p.idx \cup {k} |-> IF x = k THEN i ELSE p.idx[x]],
     keys |-> Append(p.keys, k),
     succ |-> Append(p.succ, <<>>),
     amb  |-> Append(p.amb, <<>>)]

add_key(p, k) ==
    IF k \in DOMAIN p.idx THEN p
    ELSE LET i == Len(p.keys) IN
         [idx  |-> [x \in DOMAIN p.idx \cup {k} |-> IF x = k THEN i ELSE p.idx[x]],
          keys |-> Append(p.keys, k),
          succ |-> Append(p.succ, <<>>),
          amb  |-> Append(p.amb, <<>>)]

add_edge(p, i, j) ==
    IF i # j /\ ~Contains(At(p.succ, i), j)
    THEN [p EXCEPT !.succ[i + 1] = Append(@, j)]
    ELSE p

\* for k in row { add_key(k) }
RECURSIVE AddRowKeys(_, _)
AddRowKeys(p, row) ==
    IF row = <<>> THEN p ELSE AddRowKeys(add_key(p, Head(row)), Tail(row))

\* for row in rows { for k in row { add_key(k) } }
RECURSIVE AddAllKeys(_, _)
AddAllKeys(p, rs) ==
    IF rs = <<>> THEN p ELSE AddAllKeys(AddRowKeys(p, Head(rs)), Tail(rs))

\* for j in (i+1)..row.len() { add_edge(idx[row[i]], idx[row[j]]) }
\* (i, j are the code's 0-based positions)
RECURSIVE AddEdgesFrom(_, _, _, _)
AddEdgesFrom(p, row, i, j) ==
    IF j >= Len(row) THEN p
    ELSE AddEdgesFrom(add_edge(p, p.idx[At(row, i)], p.idx[At(row, j)]), row, i, j + 1)

\* for i in 0..row.len() { ... }
RECURSIVE AddRowEdges(_, _, _)
AddRowEdges(p, row, i) ==
    IF i >= Len(row) THEN p
    ELSE AddRowEdges(AddEdgesFrom(p, row, i, i + 1), row, i + 1)

\* for row in rows { ... }
RECURSIVE AddAllEdges(_, _)
AddAllEdges(p, rs) ==
    IF rs = <<>> THEN p ELSE AddAllEdges(AddRowEdges(p, Head(rs), 0), Tail(rs))

\* The poset from_rows holds just before it calls normalize.
draft_poset(rs) == AddAllEdges(AddAllKeys(new, rs), rs)

(***************************************************************************)
(* petgraph::DiGraph as used by the code: n nodes and the edges in the     *)
(* order they were added.                                                  *)
(***************************************************************************)
RECURSIVE EdgesOf(_, _)
EdgesOf(sc, u) ==
    IF u >= Len(sc) THEN <<>>
    ELSE [i \in 1..Len(At(sc, u)) |-> <<u, At(sc, u)[i]>>] \o EdgesOf(sc, u + 1)

\* One node per key, one edge per entry of succ, in succ's order.
build_graph(sc) == [n |-> Len(sc), edges |-> EdgesOf(sc, 0)]

\* Graph::neighbors: the targets of a's outgoing edges, newest edge first.
RECURSIVE neighbors(_, _)
neighbors(es, a) ==
    IF es = <<>> THEN <<>>
    ELSE IF Head(es)[1] = a THEN neighbors(Tail(es), a) \o <<Head(es)[2]>>
    ELSE neighbors(Tail(es), a)

\* The same on Reversed(g): the sources of a's incoming edges, newest first.
RECURSIVE neighbors_rev(_, _)
neighbors_rev(es, a) ==
    IF es = <<>> THEN <<>>
    ELSE IF Head(es)[2] = a THEN neighbors_rev(Tail(es), a) \o <<Head(es)[1]>>
    ELSE neighbors_rev(Tail(es), a)

\* find_edge(u, v) then remove_edge(eid): the first u->v edge leaves the graph.
RECURSIVE remove_edge(_, _, _)
remove_edge(es, u, v) ==
    IF es = <<>> THEN <<>>
    ELSE IF Head(es) = <<u, v>> THEN Tail(es)
    ELSE <<Head(es)>> \o remove_edge(Tail(es), u, v)

\* Push onto the Dfs stack the neighbours not yet discovered.
RECURSIVE PushUndiscovered(_, _, _)
PushUndiscovered(stack, nbrs, discovered) ==
    IF nbrs = <<>> THEN stack
    ELSE PushUndiscovered(
            IF Head(nbrs) \in discovered THEN stack ELSE Append(stack, Head(nbrs)),
            Tail(nbrs), discovered)

Pop(stack) == SubSeq(stack, 1, Len(stack) - 1)
Top(stack) == stack[Len(stack)]

\* dfs.iter(g).any(|x| x == to)
RECURSIVE DfsAny(_, _, _, _)
DfsAny(es, stack, discovered, to) ==
    IF stack = <<>> THEN FALSE
    ELSE LET node == Top(stack) IN
         IF node \in discovered THEN DfsAny(es, Pop(stack), discovered, to)
         ELSE IF node = to THEN TRUE
         ELSE DfsAny(es,
                     PushUndiscovered(Pop(stack), neighbors(es, node), discovered \cup {node}),
                     discovered \cup {node}, to)

\* petgraph::algo::has_path_connecting(g, from, to, None)
has_path_connecting(es, from, to) == DfsAny(es, <<from>>, {}, to)

(***************************************************************************)
(* normalize                                                               *)
(***************************************************************************)
\* keep_edge testing reachability in g itself, the edge u->v still in it.
keep_edge_no_removal(es, u, v) == ~has_path_connecting(es, u, v)

\* keep_edge keeping every edge (no reduction).
keep_edge_all(es, u, v) == TRUE

\* Lines 79-84: clone g, drop the edge u->v, and keep the edge iff v is then
\* unreachable from u.
keep_edge(es, u, v) == ~has_path_connecting(remove_edge(es, u, v), u, v)

RECURSIVE CoverEdges(_, _, _)
CoverEdges(es, u, vs) ==
    IF vs = <<>> THEN <<>>
    ELSE (IF keep_edge(es, u, Head(vs)) THEN <<Head(vs)>> ELSE <<>>)
         \o CoverEdges(es, u, Tail(vs))

\* Lines 94-96: i and j are incomparable iff neither reaches the other in g.
incomparable(es, i, j) ==
    ~has_path_connecting(es, i, j) /\ ~has_path_connecting(es, j, i)

RECURSIVE AmbRow(_, _, _, _)
AmbRow(es, n, i, j) ==
    IF j >= n THEN <<>>
    ELSE (IF incomparable(es, i, j) THEN <<j>> ELSE <<>>) \o AmbRow(es, n, i, j + 1)

normalize(p) ==
    LET n  == Len(p.keys)
        es == build_graph(p.succ).edges
        new_succ == [u1 \in 1..n |-> sort_unstable(CoverEdges(es, u1 - 1, p.succ[u1]))]
        new_amb  == [i1 \in 1..n |-> sort_unstable(AmbRow(es, n, i1 - 1, i1))]
    IN [p EXCEPT !.succ = new_succ, !.amb = new_amb]

from_rows(rs) == normalize(draft_poset(rs))

(***************************************************************************)
(* petgraph::algo::toposort(&g, None), as topo_one calls it.               *)
(***************************************************************************)
RECURSIVE Reverse(_)
Reverse(s) == IF s = <<>> THEN <<>> ELSE Append(Reverse(Tail(s)), Head(s))

\* finish_stack.reverse()
finish_order(finish_stack) == Reverse(finish_stack)

\* The inner `while let Some(&nx) = dfs.stack.last()` loop of the first pass.
RECURSIVE TopoVisit(_, _, _, _, _)
TopoVisit(es, stack, discovered, finished, finish_stack) ==
    IF stack = <<>>
    THEN [err |-> FALSE, node |-> 0, discovered |-> discovered,
          finished |-> finished, finish_stack |-> finish_stack]
    ELSE LET nx == Top(stack) IN
         IF nx \notin discovered
         THEN IF Contains(neighbors(es, nx), nx)
              THEN [err |-> TRUE, node |-> nx, discovered |-> discovered,
                    finished |-> finished, finish_stack |-> finish_stack]
              ELSE TopoVisit(es,
                             PushUndiscovered(stack, neighbors(es, nx), discovered \cup {nx}),
                             discovered \cup {nx}, finished, finish_stack)
         ELSE TopoVisit(es, Pop(stack), discovered, finished \cup {nx},
                        IF nx \in finished THEN finish_stack ELSE Append(finish_stack, nx))

\* for i in g.node_identifiers() { ... }
RECURSIVE TopoFirstPass(_, _, _, _, _, _)
TopoFirstPass(es, n, i, discovered, finished, finish_stack) ==
    IF i >= n
    THEN [err |-> FALSE, node |-> 0, finish_stack |-> finish_stack]
    ELSE IF i \in discovered
    THEN TopoFirstPass(es, n, i + 1, discovered, finished, finish_stack)
    ELSE LET r == TopoVisit(es, <<i>>, discovered, finished, finish_stack) IN
         IF r.err THEN [err |-> TRUE, node |-> r.node, finish_stack |-> r.finish_stack]
         ELSE TopoFirstPass(es, n, i + 1, r.discovered, r.finished, r.finish_stack)

\* Dfs::next on Reversed(g).
RECURSIVE DfsNextRev(_, _, _)
DfsNextRev(es, stack, discovered) ==
    IF stack = <<>>
    THEN [some |-> FALSE, node |-> 0, stack |-> stack, discovered |-> discovered]
    ELSE LET node == Top(stack) IN
         IF node \in discovered THEN DfsNextRev(es, Pop(stack), discovered)
         ELSE [some |-> TRUE, node |-> node,
               stack |-> PushUndiscovered(Pop(stack), neighbors_rev(es, node),
                                          discovered \cup {node}),
               discovered |-> discovered \cup {node}]

\* Second pass: for &i in &finish_stack { dfs.move_to(i); a second node found
\* walking the reversed graph is a cycle }.
RECURSIVE TopoSecondPass(_, _, _, _)
TopoSecondPass(es, order, k, discovered) ==
    IF k > Len(order) THEN [err |-> FALSE, node |-> 0]
    ELSE LET first == DfsNextRev(es, <<order[k]>>, discovered) IN
         IF ~first.some THEN TopoSecondPass(es, order, k + 1, first.discovered)
         ELSE LET second == DfsNextRev(es, first.stack, first.discovered) IN
              IF second.some THEN [err |-> TRUE, node |-> second.node]
              ELSE TopoSecondPass(es, order, k + 1, second.discovered)

\* Ok(order) is [ok |-> TRUE, val |-> order]; Err(Cycle(x)) is [ok |-> FALSE, val |-> <<x>>].
toposort(g) ==
    LET p1 == TopoFirstPass(g.edges, g.n, 0, {}, {}, <<>>) IN
    IF p1.err THEN [ok |-> FALSE, val |-> <<p1.node>>]
    ELSE LET order == finish_order(p1.finish_stack)
             p2 == TopoSecondPass(g.edges, order, 1, {})
         IN IF p2.err THEN [ok |-> FALSE, val |-> <<p2.node>>]
            ELSE [ok |-> TRUE, val |-> order]

\* out_keys walking toposort's order backwards, as if it were reversed.
out_keys_reversed(p, order) ==
    [i \in 1..Len(order) |-> At(p.keys, order[Len(order) + 1 - i])]

\* Lines 132-137: for ix in order { out.push(keys[ix.index()]) }
out_keys(p, order) == [i \in 1..Len(order) |-> At(p.keys, order[i])]

\* Ok(keys in toposort's order), or Err(vec![the one key toposort names]).
topo_one(p) ==
    LET r == toposort(build_graph(p.succ)) IN
    IF r.ok THEN [ok |-> TRUE, val |-> out_keys(p, r.val)]
    ELSE [ok |-> FALSE, val |-> <<At(p.keys, r.val[1])>>]

(***************************************************************************)
(* The state machine: a caller builds a Poset from rows, may call          *)
(* normalize again any number of times (renormalized records that it did), *)
(* and asks for one topological order.                                     *)
(***************************************************************************)
Self == [idx |-> idx, keys |-> keys, succ |-> succ, amb |-> amb]

NoResult == [ok |-> FALSE, val |-> <<>>]

InitWith(rs) ==
    /\ rows = rs
    /\ pc = "input"
    /\ idx = new.idx
    /\ keys = new.keys
    /\ succ = new.succ
    /\ amb = new.amb
    /\ renormalized = FALSE
    /\ res = NoResult

Init == \E rs \in RowLists \cup PermRowLists : InitWith(rs)

FromRows ==
    /\ pc = "input"
    /\ \E p \in {from_rows(rows)} :
        /\ idx' = p.idx
        /\ keys' = p.keys
        /\ succ' = p.succ
        /\ amb' = p.amb
    /\ pc' = "built"
    /\ UNCHANGED <<rows, renormalized, res>>

Normalize ==
    /\ pc = "built"
    /\ \E p \in {normalize(Self)} :
        /\ idx' = p.idx
        /\ keys' = p.keys
        /\ succ' = p.succ
        /\ amb' = p.amb
    /\ renormalized' = TRUE
    /\ UNCHANGED <<rows, pc, res>>

TopoOne ==
    /\ pc = "built"
    /\ res' = topo_one(Self)
    /\ pc' = "done"
    /\ UNCHANGED <<rows, idx, keys, succ, amb, renormalized>>

Next == FromRows \/ Normalize \/ TopoOne

Spec == Init /\ [][Next]_vars

(***************************************************************************)
(* Vocabulary of the properties.                                           *)
(***************************************************************************)
Built == pc # "input"

Nodes == 0..(Len(keys) - 1)

\* succ as a set of index pairs.
SuccRel == {e \in Nodes \X Nodes : Contains(At(succ, e[1]), e[2])}

\* amb as a set of index pairs (i, j) with j listed in amb[i].
AmbRel == {e \in Nodes \X Nodes : Contains(At(amb, e[1]), e[2])}

\* The draft relation of the rows: u before v in some row, u # v.
DraftKeys ==
    {e \in Keys \X Keys :
        /\ e[1] # e[2]
        /\ \E r \in 1..Len(rows) : \E i, j \in 1..Len(rows[r]) :
              i < j /\ rows[r][i] = e[1] /\ rows[r][j] = e[2]}

\* The same over indices, through the registry.
DraftRel == {<<idx[e[1]], idx[e[2]]>> : e \in DraftKeys}

RECURSIVE Closure(_)
Closure(R) ==
    LET R2 == R \cup {<<q[1][1], q[2][2]>> : q \in {p \in R \X R : p[1][2] = p[2][1]}}
    IN IF R2 = R THEN R ELSE Closure(R2)

OnCycle(R, x) == <<x, x>> \in Closure(R)
Acyclic(R) == LET C == Closure(R) IN \A e \in C : e[1] # e[2]

\* Edges of R implied by a path of length >= 2 of R.
Implied(R) ==
    LET C == Closure(R) IN
    {e \in R : \E w \in Nodes : <<e[1], w>> \in C /\ <<w, e[2]>> \in C}

NoRepeats(v) == \A i, j \in 1..Len(v) : i # j => v[i] # v[j]
Sorted(v) == \A i, j \in 1..Len(v) : i < j => v[i] < v[j]

\* Position of key k in the sequence v (0 when absent).
Pos(v, k) == IF Contains(v, k) THEN CHOOSE i \in 1..Len(v) : v[i] = k ELSE 0

\* Kahn's elimination over succ placing the smallest eligible index next.
RECURSIVE Kahn(_)
Kahn(placed) ==
    LET eligible == {i \in Nodes \ Elems(placed) :
                        \A e \in SuccRel : e[2] = i => e[1] \in Elems(placed)}
    IN IF eligible = {} THEN placed
       ELSE Kahn(Append(placed, CHOOSE i \in eligible : \A j \in eligible : i <= j))

KahnOrder == Kahn(<<>>)
KahnBlocked == Nodes \ Elems(KahnOrder)

\* The keys of the rows in order of first appearance.
RECURSIVE FirstSeen(_, _)
FirstSeen(cells, seen) ==
    IF cells = <<>> THEN seen
    ELSE FirstSeen(Tail(cells), IF Contains(seen, Head(cells)) THEN seen
                                ELSE Append(seen, Head(cells)))

RECURSIVE Flatten(_)
Flatten(rs) == IF rs = <<>> THEN <<>> ELSE Head(rs) \o Flatten(Tail(rs))

HasRepeat(row) == ~NoRepeats(row)

\* No row names a key twice.
CleanRows == \A r \in 1..Len(rows) : NoRepeats(rows[r])

(***************************************************************************)
(* C1: when the draft relation of the rows is acyclic, succ is exactly its *)
(* transitive reduction: a subset of the draft edges with the same         *)
(* transitive closure, holding no edge implied by a longer path.           *)
(***************************************************************************)
C1_TransitiveReduction ==
    Built =>
        LET D == DraftRel
            S == SuccRel
        IN Acyclic(D) =>
            /\ S \subseteq D
            /\ Closure(S) = Closure(D)
            /\ S = D \ Implied(D)
            /\ \A u \in Nodes : NoRepeats(At(succ, u))

\* An acyclic draft relation from which normalize dropped an implied edge.
C1_Witness ==
    /\ pc = "built"
    /\ Acyclic(DraftRel)
    /\ SuccRel # {}
    /\ DraftRel \ SuccRel # {}

(***************************************************************************)
(* C2: after normalize, for any rows, no edge (u,v) of succ has an         *)
(* alternate path from u to v through the other edges of succ, and succ    *)
(* holds no self-loop.                                                     *)
(***************************************************************************)
C2_ReductionSound ==
    Built => LET S == SuccRel IN
             \A e \in S :
                /\ e[1] # e[2]
                /\ e \notin Closure(S \ {e})

\* A cyclic draft relation of which normalize kept some edges and dropped others.
C2_Witness ==
    /\ pc = "built"
    /\ ~Acyclic(DraftRel)
    /\ SuccRel # {}
    /\ DraftRel \ SuccRel # {}

(***************************************************************************)
(* C3: after from_rows, every pair of distinct indices neither of which is *)
(* on a cycle of the draft relation satisfies exactly one of: i reaches j  *)
(* in succ, j reaches i in succ, (min, max) is in amb.                     *)
(***************************************************************************)
ExactlyOne(a, b, c) == (a /\ ~b /\ ~c) \/ (~a /\ b /\ ~c) \/ (~a /\ ~b /\ c)

C3_Trichotomy ==
    (pc = "built" /\ ~renormalized) =>
        \A i, j \in Nodes :
            (i < j /\ ~OnCycle(DraftRel, i) /\ ~OnCycle(DraftRel, j)) =>
                ExactlyOne(<<i, j>> \in Closure(SuccRel),
                           <<j, i>> \in Closure(SuccRel),
                           <<i, j>> \in AmbRel)

(***************************************************************************)
(* C4: calling normalize again on the Poset from_rows returned leaves succ *)
(* and amb as they were (stated here for rows that repeat no key, whose    *)
(* orderings may contradict each other).                                   *)
(***************************************************************************)
C4_Idempotent ==
    [][(pc = "built" /\ pc' = "built" /\ CleanRows) =>
            (succ' = succ /\ amb' = amb)]_vars

C6_KahnTieBreak ==
    (pc = "done" /\ res.ok) =>
        res.val = [i \in 1..Len(KahnOrder) |-> At(keys, KahnOrder[i])]

(***************************************************************************)
(* C7: when topo_one returns Err(blocked), blocked holds the key of every  *)
(* index Kahn's elimination over succ could not place (stated here for     *)
(* rows that repeat no key).                                               *)
(***************************************************************************)
C7_FullBlockedSet ==
    (pc = "done" /\ ~res.ok /\ CleanRows) =>
        Elems(res.val) = {At(keys, i) : i \in KahnBlocked}

(***************************************************************************)
(* C8: when the draft relation of the rows has a directed cycle, topo_one  *)
(* on the Poset from_rows returned is Err, never Ok (stated here for rows  *)
(* that repeat no key).                                                    *)
(***************************************************************************)
C8_CycleIsErr ==
    (pc = "done" /\ ~renormalized /\ CleanRows /\ ~Acyclic(DraftRel)) => ~res.ok

(***************************************************************************)
(* C9: after from_rows, and after any further normalize, idx and keys are  *)
(* inverse bijections over 0..keys.len(), every key of the rows is         *)
(* registered once, keys is in order of first appearance, succ and amb     *)
(* have keys.len() rows, and every stored index is below keys.len().       *)
(***************************************************************************)
C9_Registry ==
    Built =>
        /\ DOMAIN idx = Elems(Flatten(rows))
        /\ \A k \in DOMAIN idx : idx[k] \in Nodes /\ At(keys, idx[k]) = k
        /\ \A i \in Nodes : At(keys, i) \in DOMAIN idx /\ idx[At(keys, i)] = i
        /\ keys = FirstSeen(Flatten(rows), <<>>)
        /\ Len(succ) = Len(keys)
        /\ Len(amb) = Len(keys)
        /\ \A i \in Nodes : Elems(At(succ, i)) \subseteq Nodes
        /\ \A i \in Nodes : Elems(At(amb, i)) \subseteq Nodes

\* A renormalized poset of three or more keys, built from rows that repeat
\* a key, with edges and incomparable pairs.
C9_Witness ==
    /\ pc = "built"
    /\ renormalized
    /\ Len(keys) >= 3
    /\ Len(Flatten(rows)) > Len(keys)
    /\ SuccRel # {}
    /\ AmbRel # {}

(***************************************************************************)
(* C10: a single row that repeats a key is de-duplicated to first          *)
(* occurrences before edge insertion: from_rows gives the succ and amb of  *)
(* the row without its later repeats, with no self-loop and no pair of     *)
(* contradictory edges, and topo_one succeeds on it.                       *)
(***************************************************************************)
C10_RowDeduplicated ==
    (Built /\ ~renormalized /\ Len(rows) = 1 /\ HasRepeat(rows[1])) =>
        LET q == from_rows(<<FirstSeen(rows[1], <<>>)>>) IN
        /\ succ = q.succ
        /\ amb = q.amb
        /\ \A e \in SuccRel : e[1] # e[2] /\ <<e[2], e[1]>> \notin SuccRel
        /\ pc = "done" => res.ok

====
